---- MODULE Spec2Model ----
(***************************************************************************)
(* FluxImagePipeline (diffsynth/pipelines/flux_image.py): the pipeline     *)
(* call as a state machine, the denoising evaluator lets_dance_flux as a   *)
(* block-by-block machine, and inpaint_fusion as a function on tensors.    *)
(*                                                                         *)
(* Tensors produced by the external networks (text encoders, VAE, DiT,     *)
(* ControlNet, IP-Adapter) are symbolic: a value records which inputs it   *)
(* was computed from.  Python's None is the empty tuple, a present value   *)
(* x is <<x>>; a keyword dictionary is a record, {} the empty function.    *)
(***************************************************************************)
EXTENDS Integers, Sequences, FiniteSets, TLC

VARIABLES pc, callId, args, scheduler, resident, loc, obs, ev, fu, prompter

vars == <<pc, callId, args, scheduler, resident, loc, obs, ev, fu, prompter>>

\* ------------------------------------------------------------- bounds
MaxSteps == 2
MaxRegions == 2
MaxCalls == 2
MaxGrid == 3
NumJoint == 2
NumSingle == 2
MaxPos == 2
MaxExtend == 1

\* ------------------------------------------------------------- options
None == <<>>
Some(x) == <<x>>
Val(o) == o[1]
IsNone(o) == o = <<>>

EmptyDict == [k \in {} |-> None]
Get(d, k, default) == IF k \in DOMAIN d THEN d[k] ELSE default

Min(a, b) == IF a <= b THEN a ELSE b

\* ------------------------------------------------------------- collaborators
\* self.controlnet.processors: the processor ids of the configured units
Processors == <<"canny", "inpaint">>

\* prompter.encode_prompt wrapped by encode_prompt
encode_prompt(prompt, positive) ==
    [prompt_emb        |-> <<"t5", prompt, positive>>,
     pooled_prompt_emb |-> <<"clip", prompt, positive>>,
     text_ids          |-> <<"text_ids", prompt, positive>>]

\* scheduler.set_timesteps: a decreasing sequence of n positive levels
set_timesteps(n) == [i \in 1..n |-> n - i + 1]

\* scheduler.set_timesteps aborts the run on a step count <= 0
set_timesteps_fails(n) == n <= 0

\* scheduler.add_noise
add_noise(input_latents, noise, timestep) ==
    [init |-> "noised_image", level |-> timestep, hist |-> <<>>]

\* generate_noise
generate_noise == [init |-> "noise", level |-> 0, hist |-> <<>>]

\* scheduler.step: the latent one level further, from this latent alone
scheduler_step(noise_pred, timestep, latents) ==
    [latents EXCEPT !.hist = Append(@, timestep)]

\* ------------------------------------------------------------- controlnet input
prepare_controlnet_input(controlnet_image, controlnet_inpaint_mask) ==
    [i \in 1..Len(Processors) |->
        [image     |-> controlnet_image,
         processor |-> Processors[i],
         window    |-> "full",
         mask      |-> IF ~IsNone(controlnet_inpaint_mask) /\ Processors[i] = "inpaint"
                       THEN controlnet_inpaint_mask ELSE None]]

\* the frames of a region, line 213
local_controlnet_input_global(controlnet_image, mask, controlnet_inpaint_mask) ==
    prepare_controlnet_input(controlnet_image, controlnet_inpaint_mask)

local_controlnet_input(controlnet_image, mask, controlnet_inpaint_mask) ==
    prepare_controlnet_input(controlnet_image, Some(mask))

\* ------------------------------------------------------------- evaluator, as a function
\* the parameters of lets_dance_flux a caller binds; what it leaves out
\* takes the default of the signature
Defaults ==
    [controlnet            |-> None,
     prompt_emb            |-> None,
     pooled_prompt_emb     |-> None,
     guidance              |-> None,
     text_ids              |-> None,
     image_ids             |-> None,
     controlnet_frames     |-> None,
     tiled                 |-> FALSE,
     entity_prompt_emb     |-> None,
     entity_masks          |-> None,
     ipadapter_kwargs_list |-> EmptyDict]

\* the nested call of flux_forward_fn: the named parameters it forwards; the
\* named parameters entity_prompt_emb, entity_masks and ipadapter_kwargs_list
\* are not in **kwargs, so the nested call takes their defaults
\* f[:, :, hl: hr, wl: wr] for f in controlnet_frames
SliceFrames(frames) == [i \in 1..Len(frames) |-> [frames[i] EXCEPT !.window = "tile"]]

TileCall(b) ==
    [controlnet            |-> b.controlnet,
     prompt_emb            |-> b.prompt_emb,
     pooled_prompt_emb     |-> b.pooled_prompt_emb,
     guidance              |-> b.guidance,
     text_ids              |-> b.text_ids,
     image_ids             |-> None,
     controlnet_frames     |-> IF IsNone(b.controlnet_frames) THEN None
                               ELSE Some(SliceFrames(Val(b.controlnet_frames))),
     tiled                 |-> FALSE,
     entity_prompt_emb     |-> None,
     entity_masks          |-> None,
     ipadapter_kwargs_list |-> EmptyDict]

\* whether the control subnetwork runs and its residuals are added
UsesControl(b) == ~IsNone(b.controlnet) /\ ~IsNone(b.controlnet_frames)

\* whether process_entity_masks replaces the plain context embedding
UsesEntity(b) == ~IsNone(b.entity_prompt_emb) /\ ~IsNone(b.entity_masks)

\* the conditioning signals one whole-latent evaluation applies
Signals(b) ==
    [prompt_emb        |-> b.prompt_emb,
     pooled_prompt_emb |-> b.pooled_prompt_emb,
     guidance          |-> b.guidance,
     text_ids          |-> b.text_ids,
     control           |-> IF UsesControl(b) THEN b.controlnet_frames ELSE None,
     entity            |-> IF UsesEntity(b)
                           THEN Some(<<Val(b.entity_prompt_emb), Val(b.entity_masks)>>)
                           ELSE None,
     ipadapter         |-> b.ipadapter_kwargs_list]

\* lets_dance_flux seen from the pipeline: what the prediction was computed from
lets_dance_flux(b) ==
    [tiled   |-> b.tiled,
     signals |-> IF b.tiled THEN Signals(TileCall(b)) ELSE Signals(b)]

\* ------------------------------------------------------------- the pipeline call
Bool == {FALSE, TRUE}
Opt(x) == {None, Some(x)}

\* region masks and local prompts of a call with n regions
RegionMasks(n) == [i \in 1..n |-> <<"mask", i>>]
RegionPrompts(n) == [i \in 1..n |-> <<"local", i>>]
RegionScales(n) == [i \in 1..n |-> 1]

\* the arguments of __call__, by the names of its signature
ArgSpace ==
    [cfg_scale                     : {1, 2},
     num_inference_steps           : 0..MaxSteps,
     input_image                   : Opt("input_image"),
     n_regions                     : 0..MaxRegions,
     controlnet_image              : Opt("controlnet_image"),
     controlnet_inpaint_mask       : Opt(<<"mask", 0>>),
     enable_controlnet_on_negative : Bool,
     ipadapter_images              : Opt("ipadapter_images"),
     eligen_entity_masks           : Opt("entity_masks"),
     enable_eligen_on_negative     : Bool,
     enable_eligen_inpaint         : Bool,
     tiled                         : Bool]

\* the arguments that decide what a call reads from the scheduler; the rest
\* at the defaults of the signature
SchedArgSpace ==
    {a \in ArgSpace :
        /\ a.n_regions = 0
        /\ IsNone(a.controlnet_image) /\ IsNone(a.controlnet_inpaint_mask)
        /\ ~a.enable_controlnet_on_negative
        /\ IsNone(a.ipadapter_images)
        /\ ~a.enable_eligen_on_negative
        /\ ~a.tiled}

NoArgs == [a \in {} |-> None]

NoLocals ==
    [latents |-> None, input_latents |-> None,
     prompt_emb_posi |-> None, prompt_emb_nega |-> None, prompt_emb_locals |-> <<>>,
     extra_input |-> None,
     eligen_kwargs_posi |-> None, eligen_kwargs_nega |-> None,
     fg_mask |-> None, bg_mask |-> None,
     ipadapter_kwargs_list_posi |-> None, ipadapter_kwargs_list_nega |-> None,
     controlnet_kwargs_posi |-> None, controlnet_kwargs_nega |-> None,
     local_controlnet_kwargs |-> None,
     progress_id |-> 0,
     noise_pred_posi |-> None, noise_pred |-> None, image |-> None]

\* what an observer of the call has seen so far
NoObs ==
    [trace |-> <<>>, stepLog |-> <<>>, initial |-> None,
     negEncodes |-> 0, negEvals |-> 0, schedReads |-> {},
     warned |-> FALSE, failedAt |-> "", unfused |-> None,
     schedBefore |-> <<>>,
     bundles |-> None, bound |-> {}, uses |-> {}, fusion |-> None]

Stage(name, step) == [stage |-> name, step |-> step]

Enter(o, name, step) == [o EXCEPT !.trace = Append(@, Stage(name, step))]

ReadSched(o) == [o EXCEPT !.schedReads = @ \cup {scheduler.writer}]

\* an exception leaves the call: nothing after the raising statement runs
Fail(where) ==
    /\ pc' = "failed"
    /\ obs' = [obs EXCEPT !.failedAt = where]

\* a weight-holding component is evaluated while res is the resident set
Use(component, res, during) ==
    [component |-> component, resident |-> res, during |-> during]

\* the conditioning bundles of the call, lines 303-315
Bundles ==
    [prompt_emb_posi            |-> loc.prompt_emb_posi,
     prompt_emb_nega            |-> loc.prompt_emb_nega,
     prompt_emb_locals          |-> loc.prompt_emb_locals,
     extra_input                |-> loc.extra_input,
     eligen_kwargs_posi         |-> loc.eligen_kwargs_posi,
     eligen_kwargs_nega         |-> loc.eligen_kwargs_nega,
     ipadapter_kwargs_list_posi |-> loc.ipadapter_kwargs_list_posi,
     ipadapter_kwargs_list_nega |-> loc.ipadapter_kwargs_list_nega,
     controlnet_kwargs_posi     |-> loc.controlnet_kwargs_posi,
     controlnet_kwargs_nega     |-> loc.controlnet_kwargs_nega,
     local_controlnet_kwargs    |-> loc.local_controlnet_kwargs]

\* lines 291-297: the call begins, the schedule is set
CallWith_keep(a) ==
    /\ pc = "idle"
    /\ callId' = callId + 1
    /\ args' = a
    /\ resident' = resident
    /\ loc' = NoLocals
    /\ UNCHANGED <<ev, fu, prompter>>
    /\ IF set_timesteps_fails(a.num_inference_steps)
       THEN /\ pc' = "failed"
            /\ obs' = [NoObs EXCEPT !.failedAt = "set_timesteps"]
            /\ scheduler' = scheduler
       ELSE /\ pc' = "prepare_latents"
            /\ obs' = [Enter(NoObs, "INIT", 0) EXCEPT !.schedBefore = scheduler.timesteps]
            /\ scheduler' = IF Len(scheduler.timesteps) > 0 THEN scheduler
                            ELSE [timesteps |-> set_timesteps(a.num_inference_steps),
                                  writer |-> callId + 1]

CallWith(a) ==
    /\ pc = "idle"
    /\ callId' = callId + 1
    /\ args' = a
    /\ resident' = resident
    /\ loc' = NoLocals
    /\ UNCHANGED <<ev, fu, prompter>>
    /\ IF set_timesteps_fails(a.num_inference_steps)
       THEN /\ pc' = "failed"
            /\ obs' = [NoObs EXCEPT !.failedAt = "set_timesteps"]
            /\ scheduler' = scheduler
       ELSE /\ pc' = "prepare_latents"
            /\ obs' = [Enter(NoObs, "INIT", 0) EXCEPT !.schedBefore = scheduler.timesteps]
            /\ scheduler' = [timesteps |-> set_timesteps(a.num_inference_steps),
                             writer |-> callId + 1]

\* a call on a freshly built pipeline, any arguments
Call ==
    /\ callId = 0
    /\ \E a \in ArgSpace : CallWith(a)

\* calls one after the other on the same pipeline object
CallAgain ==
    /\ callId < MaxCalls
    /\ \E a \in SchedArgSpace : CallWith(a)

\* line 300, prepare_latents
PrepareLatents ==
    /\ pc = "prepare_latents"
    /\ IF ~IsNone(args.input_image)
       THEN /\ resident' = {"vae_encoder"}
            /\ loc' = [loc EXCEPT
                 !.input_latents = Some(<<"vae", Val(args.input_image)>>),
                 !.latents = Some(add_noise(<<"vae", Val(args.input_image)>>,
                                            generate_noise, scheduler.timesteps[1]))]
            /\ obs' = [Enter(ReadSched(obs), "LATENTS_READY", 0) EXCEPT
                 !.initial = Some(add_noise(<<"vae", Val(args.input_image)>>,
                                            generate_noise, scheduler.timesteps[1])),
                 !.uses = @ \cup {Use("vae_encoder", resident', "prepare_latents")}]
       ELSE /\ resident' = resident
            /\ loc' = [loc EXCEPT !.input_latents = None,
                                  !.latents = Some(generate_noise)]
            /\ obs' = [Enter(obs, "LATENTS_READY", 0) EXCEPT
                 !.initial = Some(generate_noise)]
    /\ pc' = "prepare_prompts"
    /\ UNCHANGED <<callId, args, scheduler, ev, fu, prompter>>

\* FluxPrompter() of line 20 with prompt_extender_classes=[] (line 37): no
\* extender; an extender adds this many regions to what it is given
NoExtender == [extends |-> 0]

\* self.extend_prompt, line 241: the prompt, local prompts, masks and mask
\* scales as the configured extenders return them
extend_prompt(prompt, local_prompts, masks, mask_scales) ==
    LET k == prompter.extends
    IN [prompt       |-> IF k = 0 THEN prompt ELSE <<"extended", 0>>,
        local_prompts |-> local_prompts \o [i \in 1..k |-> <<"extended", i>>],
        masks        |-> masks \o [i \in 1..k |-> <<"extended_mask", i>>],
        mask_scales  |-> mask_scales \o [i \in 1..k |-> 1]]

\* whether prepare_prompts encodes the negative prompt, line 245
EncodesNegative_always(cfg_scale) == TRUE

EncodesNegative(cfg_scale) == cfg_scale # 1

\* line 303, prepare_prompts
PreparePrompts ==
    /\ pc = "prepare_prompts"
    /\ resident' = {"text_encoder_1", "text_encoder_2"}
    /\ LET ext == extend_prompt(<<"global", 0>>, RegionPrompts(args.n_regions),
                                 RegionMasks(args.n_regions), RegionScales(args.n_regions))
       IN loc' = [loc EXCEPT
            !.prompt_emb_posi = encode_prompt(ext.prompt, TRUE),
            !.prompt_emb_nega = IF EncodesNegative(args.cfg_scale)
                                THEN Some(encode_prompt(<<"negative", 0>>, FALSE))
                                ELSE None,
            !.prompt_emb_locals = [i \in 1..Len(ext.local_prompts) |->
                                      encode_prompt(ext.local_prompts[i], TRUE)]]
    /\ obs' = [Enter(obs, "PROMPTS_READY", 0) EXCEPT
         !.negEncodes = IF EncodesNegative(args.cfg_scale) THEN @ + 1 ELSE @,
         !.uses = @ \cup {Use(c, resident', "prepare_prompts") :
                             c \in {"text_encoder_1", "text_encoder_2"}}]
    /\ pc' = "prepare_extra_input"
    /\ UNCHANGED <<callId, args, scheduler, ev, fu, prompter>>

\* line 306, prepare_extra_input
PrepareExtraInput ==
    /\ pc = "prepare_extra_input"
    /\ loc' = [loc EXCEPT !.extra_input =
         [image_ids |-> <<"image_ids">>, guidance |-> <<"guidance">>]]
    /\ pc' = "prepare_eligen"
    /\ UNCHANGED <<callId, args, scheduler, resident, obs, ev, fu, prompter>>

\* line 309, prepare_eligen with prepare_entity_inputs
PrepareEligen ==
    /\ pc = "prepare_eligen"
    /\ IF ~IsNone(args.eligen_entity_masks)
       THEN loc' = [loc EXCEPT
              !.eligen_kwargs_posi =
                  [entity_prompt_emb |-> Some(encode_prompt(<<"entity", 0>>, TRUE).prompt_emb),
                   entity_masks      |-> Some(<<"entity", Val(args.eligen_entity_masks)>>)],
              !.eligen_kwargs_nega =
                  IF args.enable_eligen_on_negative /\ args.cfg_scale # 1
                  THEN [entity_prompt_emb |-> Some(<<"repeat", Val(loc.prompt_emb_nega).prompt_emb>>),
                        entity_masks      |-> Some(<<"entity", Val(args.eligen_entity_masks)>>)]
                  ELSE [entity_prompt_emb |-> None, entity_masks |-> None],
              !.fg_mask = IF args.enable_eligen_inpaint
                          THEN Some(<<"fg", Val(args.eligen_entity_masks)>>) ELSE None,
              !.bg_mask = IF args.enable_eligen_inpaint
                          THEN Some(<<"bg", Val(args.eligen_entity_masks)>>) ELSE None]
       ELSE loc' = [loc EXCEPT
              !.eligen_kwargs_posi = [entity_prompt_emb |-> None, entity_masks |-> None],
              !.eligen_kwargs_nega = [entity_prompt_emb |-> None, entity_masks |-> None],
              !.fg_mask = None,
              !.bg_mask = None]
    /\ obs' = IF ~IsNone(args.eligen_entity_masks)
              THEN [obs EXCEPT !.uses = @ \cup {Use(c, resident, "prepare_eligen") :
                                    c \in {"text_encoder_1", "text_encoder_2"}}]
              ELSE obs
    /\ pc' = "prepare_ipadapter"
    /\ UNCHANGED <<callId, args, scheduler, resident, ev, fu, prompter>>

\* the adapter's per-block keyword mapping: block index -> kwargs
ipadapter(encoding) == [k \in {0, 1} |-> <<"ip", encoding, k>>]

\* the set requested before the adapter is evaluated, line 199
AdapterResident_kept == {"ipadapter_image_encoder"}

AdapterResident == {"ipadapter"}

\* line 312, prepare_ipadapter
PrepareIpadapter ==
    /\ pc = "prepare_ipadapter"
    /\ IF ~IsNone(args.ipadapter_images)
       THEN /\ resident' = AdapterResident
            /\ loc' = [loc EXCEPT
                 !.ipadapter_kwargs_list_posi =
                     [ipadapter_kwargs_list |-> ipadapter("siglip")],
                 !.ipadapter_kwargs_list_nega =
                     [ipadapter_kwargs_list |-> ipadapter("zeros")]]
            /\ obs' = [obs EXCEPT !.uses = @ \cup
                 {Use("ipadapter_image_encoder", {"ipadapter_image_encoder"}, "prepare_ipadapter"),
                  Use("ipadapter", resident', "prepare_ipadapter")}]
       ELSE /\ resident' = resident
            /\ loc' = [loc EXCEPT
                 !.ipadapter_kwargs_list_posi = [ipadapter_kwargs_list |-> EmptyDict],
                 !.ipadapter_kwargs_list_nega = [ipadapter_kwargs_list |-> EmptyDict]]
            /\ obs' = obs
    /\ pc' = "prepare_controlnet"
    /\ UNCHANGED <<callId, args, scheduler, ev, fu, prompter>>

\* line 315, prepare_controlnet
PrepareControlnet ==
    /\ pc = "prepare_controlnet"
    /\ LET masks == RegionMasks(args.n_regions)
           both  == Len(masks) > 0 /\ ~IsNone(args.controlnet_inpaint_mask)
           posi  == IF ~IsNone(args.controlnet_image)
                    THEN [controlnet_frames |->
                            Some(prepare_controlnet_input(Val(args.controlnet_image),
                                                          args.controlnet_inpaint_mask))]
                    ELSE [controlnet_frames |-> None]
           local == IF ~IsNone(args.controlnet_image)
                    THEN IF both
                         THEN Some([i \in 1..Len(masks) |->
                                 [controlnet_frames |->
                                    Some(local_controlnet_input(Val(args.controlnet_image),
                                            masks[i], args.controlnet_inpaint_mask))]])
                         ELSE None
                    ELSE Some([i \in 1..Len(masks) |-> EmptyDict])
       IN /\ resident' = IF ~IsNone(args.controlnet_image) THEN {"vae_encoder"} ELSE resident
          /\ loc' = [loc EXCEPT
               !.controlnet_kwargs_posi = posi,
               !.controlnet_kwargs_nega =
                   IF args.enable_controlnet_on_negative THEN posi ELSE EmptyDict,
               !.local_controlnet_kwargs = local]
          /\ obs' = [Enter(obs, "CONDITIONING_READY", 0) EXCEPT
               !.warned = ~IsNone(args.controlnet_image) /\ both,
               !.uses = IF ~IsNone(args.controlnet_image)
                        THEN @ \cup {Use("vae_encoder", resident', "prepare_controlnet")}
                        ELSE @]
    /\ pc' = "load_denoiser"
    /\ UNCHANGED <<callId, args, scheduler, ev, fu, prompter>>

\* the head of the loop of line 319: the next level, or the loop is over
LoopTarget_short(i) == IF i < Len(scheduler.timesteps) - 1 THEN "positive_side" ELSE "decode"

LoopTarget(i) == IF i < Len(scheduler.timesteps) THEN "positive_side" ELSE "decode"

\* line 318
LoadDenoiser ==
    /\ pc = "load_denoiser"
    /\ resident' = {"dit", "controlnet"}
    /\ obs' = [ReadSched(obs) EXCEPT !.bundles = Some(Bundles)]
    /\ pc' = LoopTarget(loc.progress_id)
    /\ UNCHANGED <<callId, args, scheduler, loc, ev, fu, prompter>>

\* lines 323-327: the keyword arguments inference_callback binds
callback_kwargs(prompt_emb, controlnet_kwargs) ==
        [controlnet            |-> Some("controlnet"),
         prompt_emb            |-> prompt_emb.prompt_emb,
         pooled_prompt_emb     |-> prompt_emb.pooled_prompt_emb,
         text_ids              |-> prompt_emb.text_ids,
         tiled                 |-> args.tiled,
         image_ids             |-> loc.extra_input.image_ids,
         guidance              |-> loc.extra_input.guidance,
         controlnet_frames     |-> Get(controlnet_kwargs, "controlnet_frames",
                                       Defaults.controlnet_frames),
         ipadapter_kwargs_list |-> loc.ipadapter_kwargs_list_posi.ipadapter_kwargs_list,
         entity_prompt_emb     |-> loc.eligen_kwargs_posi.entity_prompt_emb,
         entity_masks          |-> loc.eligen_kwargs_posi.entity_masks]

\* lines 323-327: inference_callback(prompt_emb_posi, controlnet_kwargs)
inference_callback(prompt_emb, controlnet_kwargs) ==
    lets_dance_flux(callback_kwargs(prompt_emb, controlnet_kwargs))

\* control_noise_via_local_prompts: the global prediction first, then every
\* region with its own control bundle; merge_latents keeps them with the
\* masks and scales.  A region without a bundle list gets the prompt bundle
\* alone, which the two-parameter callback of line 323 refuses.
RegionCallsFail == IsNone(loc.local_controlnet_kwargs) /\ Len(loc.prompt_emb_locals) > 0

control_noise_via_local_prompts ==
    [global |-> inference_callback(loc.prompt_emb_posi, loc.controlnet_kwargs_posi),
     locals |-> IF IsNone(loc.local_controlnet_kwargs) THEN <<>>
                ELSE [i \in 1..Min(Len(loc.prompt_emb_locals),
                                   Len(Val(loc.local_controlnet_kwargs))) |->
                        inference_callback(loc.prompt_emb_locals[i],
                                           Val(loc.local_controlnet_kwargs)[i])],
     masks  |-> RegionMasks(args.n_regions),
     mask_scales |-> RegionScales(args.n_regions)]

\* the weight-holding components one evaluation runs: the control
\* subnetwork of line 424 and the blocks of the backbone
Evaluates(b) == {"dit"} \cup (IF UsesControl(b) THEN {"controlnet"} ELSE {})

\* the guidance tensor of the caller after an evaluation: line 435 rebinds
\* the local name to guidance * 1000 and leaves the caller's tensor alone
CallerGuidance_inplace(guidance) == <<"x1000", guidance>>

CallerGuidance(guidance) == guidance

\* the evaluations control_noise_via_local_prompts asks of the callback:
\* region 0 is the global prompt
positive_calls ==
    {[region |-> 0, b |-> callback_kwargs(loc.prompt_emb_posi, loc.controlnet_kwargs_posi)]}
    \cup (IF IsNone(loc.local_controlnet_kwargs) THEN {}
          ELSE {[region |-> i,
                 b |-> callback_kwargs(loc.prompt_emb_locals[i],
                                       Val(loc.local_controlnet_kwargs)[i])] :
                   i \in 1..Min(Len(loc.prompt_emb_locals),
                                Len(Val(loc.local_controlnet_kwargs)))})

\* lines 328-331: the lists handed to control_noise_via_local_prompts; masks
\* and mask_scales are the arguments of __call__
fusion_args ==
    [prompt_emb_locals         |-> loc.prompt_emb_locals,
     masks                     |-> RegionMasks(args.n_regions),
     mask_scales               |-> RegionScales(args.n_regions),
     special_local_kwargs_list |-> loc.local_controlnet_kwargs]

\* lines 322-331
PositiveSide ==
    /\ pc = "positive_side"
    /\ IF RegionCallsFail
       THEN /\ pc' = "failed"
            /\ obs' = [obs EXCEPT !.failedAt = "control_noise_via_local_prompts",
                                  !.fusion = Some(fusion_args)]
            /\ loc' = loc
       ELSE /\ loc' = [loc EXCEPT !.noise_pred_posi = Some(control_noise_via_local_prompts),
                                  !.extra_input.guidance = CallerGuidance(@)]
            /\ obs' = [Enter(obs, "DENOISING", loc.progress_id) EXCEPT
                 !.unfused = Some(control_noise_via_local_prompts),
                 !.fusion = Some(fusion_args),
                 !.bound = @ \cup {[step |-> loc.progress_id, side |-> "posi",
                                    region |-> c.region, b |-> c.b] : c \in positive_calls},
                 !.uses = @ \cup {Use(m, resident, "positive_side") :
                                    m \in UNION {Evaluates(c.b) : c \in positive_calls}}]
            /\ pc' = IF args.enable_eligen_inpaint THEN "inpaint" ELSE "guidance"
    /\ UNCHANGED <<callId, args, scheduler, resident, ev, fu, prompter>>

\* inpaint_fusion on symbolic tensors.  An index of None is a new-axis view of
\* the whole tensor: with fg_mask None every position takes pred_noise and the
\* weight stays 1 everywhere.
inpaint_fusion_symbolic(latents, inpaint_latents, pred_noise, fg_mask, bg_mask, sigma) ==
    IF IsNone(fg_mask) THEN pred_noise
    ELSE [foreground |-> pred_noise,
          background |-> <<"inpaint_noise", latents, inpaint_latents, sigma>>,
          fg_mask |-> fg_mask, bg_mask |-> bg_mask]

\* lines 334-335; latents - inpaint_latents raises on a None operand
InpaintFusion ==
    /\ pc = "inpaint"
    /\ IF IsNone(loc.input_latents)
       THEN /\ Fail("inpaint_fusion")
            /\ loc' = loc
       ELSE /\ loc' = [loc EXCEPT !.noise_pred_posi =
                 Some(inpaint_fusion_symbolic(Val(loc.latents), Val(loc.input_latents),
                        Val(loc.noise_pred_posi), loc.fg_mask, loc.bg_mask,
                        scheduler.timesteps[loc.progress_id + 1]))]
            /\ obs' = ReadSched(obs)
            /\ pc' = "guidance"
    /\ UNCHANGED <<callId, args, scheduler, resident, ev, fu, prompter>>

\* lines 340-344: the keyword arguments of the negative side
negative_kwargs ==
        [controlnet            |-> Some("controlnet"),
         prompt_emb            |-> Val(loc.prompt_emb_nega).prompt_emb,
         pooled_prompt_emb     |-> Val(loc.prompt_emb_nega).pooled_prompt_emb,
         text_ids              |-> Val(loc.prompt_emb_nega).text_ids,
         tiled                 |-> args.tiled,
         image_ids             |-> loc.extra_input.image_ids,
         guidance              |-> loc.extra_input.guidance,
         controlnet_frames     |-> Get(loc.controlnet_kwargs_nega, "controlnet_frames",
                                       Defaults.controlnet_frames),
         ipadapter_kwargs_list |-> loc.ipadapter_kwargs_list_nega.ipadapter_kwargs_list,
         entity_prompt_emb     |-> loc.eligen_kwargs_nega.entity_prompt_emb,
         entity_masks          |-> loc.eligen_kwargs_nega.entity_masks]

\* lines 340-344: the negative side
negative_side == lets_dance_flux(negative_kwargs)

\* lines 337-347
Guidance ==
    /\ pc = "guidance"
    /\ IF args.cfg_scale # 1
       THEN /\ loc' = [loc EXCEPT !.noise_pred =
                 Some([cfg_scale |-> args.cfg_scale,
                       nega |-> negative_side,
                       posi |-> Val(loc.noise_pred_posi)]),
                                  !.extra_input.guidance = CallerGuidance(@)]
            /\ obs' = [obs EXCEPT
                 !.negEvals = @ + 1,
                 !.bound = @ \cup {[step |-> loc.progress_id, side |-> "nega",
                                    region |-> 0, b |-> negative_kwargs]},
                 !.uses = @ \cup {Use(m, resident, "guidance") : m \in Evaluates(negative_kwargs)}]
       ELSE /\ loc' = [loc EXCEPT !.noise_pred = loc.noise_pred_posi]
            /\ obs' = obs
    /\ pc' = "iterate"
    /\ UNCHANGED <<callId, args, scheduler, resident, ev, fu, prompter>>

\* the level the integrator is given at iteration progress_id, line 350
StepLevel_first(progress_id) == scheduler.timesteps[1]

StepLevel(progress_id) == scheduler.timesteps[progress_id + 1]

\* lines 349-354
Iterate ==
    /\ pc = "iterate"
    /\ LET next == scheduler_step(Val(loc.noise_pred), StepLevel(loc.progress_id), Val(loc.latents))
       IN /\ loc' = [loc EXCEPT !.latents = Some(next), !.progress_id = @ + 1]
          /\ obs' = [ReadSched(obs) EXCEPT !.stepLog = Append(@,
                 [progress_id |-> loc.progress_id,
                  level       |-> StepLevel(loc.progress_id),
                  noise_pred  |-> Val(loc.noise_pred),
                  input       |-> Val(loc.latents),
                  output      |-> next])]
    /\ pc' = LoopTarget(loc.progress_id + 1)
    /\ UNCHANGED <<callId, args, scheduler, resident, ev, fu, prompter>>

\* lines 356-358
Decode ==
    /\ pc = "decode"
    /\ resident' = {"vae_decoder"}
    /\ loc' = [loc EXCEPT !.image = Some(<<"decoded", Val(loc.latents)>>)]
    /\ obs' = [Enter(obs, "DECODED", 0) EXCEPT
         !.uses = @ \cup {Use("vae_decoder", resident', "decode")}]
    /\ pc' = "offload"
    /\ UNCHANGED <<callId, args, scheduler, ev, fu, prompter>>

\* lines 360-362: the models are offloaded, the image returned, the locals gone
Return ==
    /\ pc = "offload"
    /\ resident' = {}
    /\ loc' = NoLocals
    /\ obs' = NoObs
    /\ args' = NoArgs
    /\ pc' = "idle"
    /\ UNCHANGED <<callId, scheduler, ev, fu, prompter>>

\* the exception reaches the caller: the locals are gone, the pipeline object stays
Raise ==
    /\ pc = "failed"
    /\ loc' = NoLocals
    /\ obs' = NoObs
    /\ args' = NoArgs
    /\ pc' = "idle"
    /\ UNCHANGED <<callId, scheduler, resident, ev, fu, prompter>>

NoEval == [phase |-> "off"]
NoFusion == [phase |-> "off"]

\* __init__, lines 18-31, and fetch_models
Init ==
    /\ pc = "idle"
    /\ callId = 0
    /\ args = NoArgs
    /\ scheduler = [timesteps |-> <<>>, writer |-> 0]
    /\ resident = {}
    /\ loc = NoLocals
    /\ obs = NoObs
    /\ ev = NoEval
    /\ fu = NoFusion
    /\ prompter = NoExtender

Steps ==
    \/ PrepareLatents
    \/ PreparePrompts
    \/ PrepareExtraInput
    \/ PrepareEligen
    \/ PrepareIpadapter
    \/ PrepareControlnet
    \/ LoadDenoiser
    \/ PositiveSide
    \/ InpaintFusion
    \/ Guidance
    \/ Iterate
    \/ Decode
    \/ Return
    \/ Raise

Next == Call \/ Steps

Spec == Init /\ [][Next]_vars

\* a pipeline built with prompt extenders (prompt_extender_classes of line
\* 37), called with the arguments that reach the local-prompt fusion
ExtArgSpace ==
    {a \in ArgSpace :
        /\ ~a.enable_controlnet_on_negative
        /\ IsNone(a.ipadapter_images)
        /\ IsNone(a.eligen_entity_masks)
        /\ ~a.enable_eligen_on_negative
        /\ ~a.tiled}

InitExt ==
    /\ pc = "idle"
    /\ callId = 0
    /\ args = NoArgs
    /\ scheduler = [timesteps |-> <<>>, writer |-> 0]
    /\ resident = {}
    /\ loc = NoLocals
    /\ obs = NoObs
    /\ ev = NoEval
    /\ fu = NoFusion
    /\ prompter \in [extends : 0..MaxExtend]

CallExt ==
    /\ callId = 0
    /\ \E a \in ExtArgSpace : CallWith(a)

NextExt == CallExt \/ Steps

SpecExt == InitExt /\ [][NextExt]_vars

NextCalls == CallAgain \/ Steps

SpecCalls == Init /\ [][NextCalls]_vars

\* ------------------------------------------------------------- what a state shows
InCall == pc # "idle"

\* the evaluations behind the predictions of the current step
PosiEvals ==
    IF IsNone(obs.unfused) THEN {}
    ELSE {Val(obs.unfused).global}
         \cup {Val(obs.unfused).locals[i] : i \in 1..Len(Val(obs.unfused).locals)}

NegaEvals ==
    IF ~IsNone(loc.noise_pred) /\ "nega" \in DOMAIN Val(loc.noise_pred)
    THEN {Val(loc.noise_pred).nega} ELSE {}

IsPrefix(s, t) == Len(s) <= Len(t) /\ \A i \in 1..Len(s) : s[i] = t[i]

\* the stages of a call with n schedule levels, in order
ExpectedTrace(n) ==
    <<Stage("INIT", 0), Stage("LATENTS_READY", 0), Stage("PROMPTS_READY", 0),
      Stage("CONDITIONING_READY", 0)>>
    \o [i \in 1..n |-> Stage("DENOISING", i - 1)]
    \o <<Stage("DECODED", 0)>>

\* the latent after k steps of a call, from the call's arguments alone
ExpectedLatents(a, k) ==
    [init  |-> IF IsNone(a.input_image) THEN "noise" ELSE "noised_image",
     level |-> IF IsNone(a.input_image) THEN 0 ELSE set_timesteps(a.num_inference_steps)[1],
     hist  |-> SubSeq(set_timesteps(a.num_inference_steps), 1, k)]

\* ------------------------------------------------------------- claims
\* C1: in a call with cfg_scale = 1, whatever the other options, the negative
\* prompt is never encoded, no negative-side evaluation is made at any step,
\* and the prediction handed to the scheduler step is the positive-side one.
C1_NoNegativeSideAtUnitScale ==
    (InCall /\ args.cfg_scale = 1) =>
        /\ obs.negEncodes = 0
        /\ obs.negEvals = 0
        /\ IsNone(loc.prompt_emb_nega)
        /\ NegaEvals = {}
        /\ (pc = "iterate" => loc.noise_pred = loc.noise_pred_posi)

C1_Witness ==
    /\ pc = "offload"
    /\ args.cfg_scale = 1
    /\ Len(obs.stepLog) >= 2
    /\ ~IsNone(args.eligen_entity_masks) /\ args.enable_eligen_on_negative
    /\ ~IsNone(args.controlnet_image) /\ args.enable_controlnet_on_negative
    /\ args.tiled /\ args.n_regions > 0

\* C2: the stages entered by a call are INIT, LATENTS_READY, PROMPTS_READY,
\* CONDITIONING_READY, DENOISING 0..N-1, DECODED, in that order and each once;
\* DECODED comes after all N steps; a call that does not fail reaches DECODED:
\* until it has decoded or failed a call always has a next statement, and each
\* statement takes it further along a bounded course, never back.
C2_StagesInOrder ==
    InCall =>
        /\ IsPrefix(obs.trace, ExpectedTrace(args.num_inference_steps))
        /\ (pc = "offload" =>
               /\ obs.trace = ExpectedTrace(args.num_inference_steps)
               /\ Len(obs.stepLog) = args.num_inference_steps)

\* how far a call has come: it grows with every statement and is bounded
Ord(p) ==
    CASE p = "prepare_latents" -> 1
      [] p = "prepare_prompts" -> 2
      [] p = "prepare_extra_input" -> 3
      [] p = "prepare_eligen" -> 4
      [] p = "prepare_ipadapter" -> 5
      [] p = "prepare_controlnet" -> 6
      [] p = "load_denoiser" -> 7
      [] p = "positive_side" -> 8
      [] p = "inpaint" -> 9
      [] p = "guidance" -> 10
      [] p = "iterate" -> 11
      [] p = "decode" -> 12
      [] OTHER -> 13

Progress == 4 * loc.progress_id + Ord(pc)

Underway == pc \notin {"idle", "offload", "failed"}

\* C2: a call goes through its stages in the fixed order (latents, prompts,
\* extra input, entity, adapter, control, then per level: positive side,
\* fusion, guidance, step; then decode), always has a next stage to take, and
\* reaches the end or a failure within 4*N+13 stages.
C2_Stages ==
    /\ []C2_StagesInOrder
    /\ [](Underway => ENABLED Steps)
    /\ [](Underway => Progress <= 4 * args.num_inference_steps + 13)
    /\ [][Underway => (pc' \in {"offload", "failed"} \/ (Underway' /\ Progress' > Progress))]_vars

C2_Witness ==
    /\ pc = "offload"
    /\ Len(obs.trace) = 5 + MaxSteps
    /\ obs.trace[Len(obs.trace)] = Stage("DECODED", 0)

\* C4: a call without adapter images, without a control image or without
\* entity masks does not fail in the path of the absent feature, and that path
\* (adapter injection, control evaluation and residuals, entity attention and
\* inpainting fusion) changes no prediction of any step.
C4_AdapterAbsent ==
    (InCall /\ IsNone(args.ipadapter_images)) =>
        \A e \in PosiEvals \cup NegaEvals : e.signals.ipadapter = EmptyDict

C4_ControlAbsent ==
    (InCall /\ IsNone(args.controlnet_image)) =>
        \A e \in PosiEvals \cup NegaEvals : IsNone(e.signals.control)

C4_EntityAbsent ==
    (InCall /\ IsNone(args.eligen_entity_masks)) =>
        /\ \A e \in PosiEvals \cup NegaEvals : IsNone(e.signals.entity)
        /\ (pc \in {"guidance", "iterate"} => loc.noise_pred_posi = obs.unfused)

C4_NoFailureInAbsentPath ==
    (InCall /\ IsNone(args.eligen_entity_masks)) => obs.failedAt # "inpaint_fusion"

\* C4: a call without adapter images, without a control image and without
\* entity masks makes every evaluation without the corresponding signal,
\* leaves the positive prediction unfused, and does not fail for their absence.
C4_AbsentFeaturesAreNoOps ==
    /\ C4_AdapterAbsent
    /\ C4_ControlAbsent
    /\ C4_EntityAbsent
    /\ C4_NoFailureInAbsentPath

\* C7: with a control image, a global inpaint mask and at least one region
\* mask, prepare_controlnet does not reject the call: it warns and builds one
\* control bundle per region mask, in order, from that region's own mask.
C7_RegionMasksTakePrecedence ==
    [][(/\ pc = "prepare_controlnet"
        /\ ~IsNone(args.controlnet_image)
        /\ ~IsNone(args.controlnet_inpaint_mask)
        /\ args.n_regions > 0)
       => /\ pc' = "load_denoiser"
          /\ obs'.warned
          /\ ~IsNone(loc'.local_controlnet_kwargs)
          /\ LET local == Val(loc'.local_controlnet_kwargs)
                 masks == RegionMasks(args.n_regions)
             IN /\ Len(local) = Len(masks)
                /\ \A i \in 1..Len(local) :
                     LET frames == Val(local[i].controlnet_frames)
                     IN /\ Len(frames) = Len(Processors)
                        /\ \A k \in 1..Len(frames) :
                             /\ frames[k].image = Val(args.controlnet_image)
                             /\ frames[k].processor = Processors[k]
                             /\ frames[k].mask = IF Processors[k] = "inpaint"
                                                 THEN Some(masks[i]) ELSE None]_vars

C7_Witness ==
    /\ pc = "load_denoiser"
    /\ obs.warned
    /\ args.n_regions >= 2
    /\ ~IsNone(loc.local_controlnet_kwargs)
    /\ Len(Val(loc.local_controlnet_kwargs)) = args.n_regions

\* C8: the loop makes exactly N integrator steps, one per schedule level in
\* schedule order; step i takes the latent of step i-1 (the initial latent for
\* i = 0) and the level at index i; nothing else changes the latent; the
\* decoded tensor is the output of the N-th step.
C8_OneStepPerLevel ==
    (InCall /\ obs.failedAt # "set_timesteps") =>
        LET log == obs.stepLog
            N   == Len(scheduler.timesteps)
        IN /\ Len(log) = loc.progress_id
           /\ Len(log) <= N
           /\ \A i \in 1..Len(log) :
                /\ log[i].progress_id = i - 1
                /\ log[i].level = scheduler.timesteps[i]
                /\ log[i].input = IF i = 1 THEN Val(obs.initial) ELSE log[i - 1].output
           /\ (~IsNone(obs.initial) =>
                 loc.latents = IF Len(log) = 0 THEN obs.initial
                               ELSE Some(log[Len(log)].output))
           /\ (pc \in {"decode", "offload"} => Len(log) = N)
           /\ (pc = "offload" => loc.image = Some(<<"decoded", log[N].output>>))

C8_Witness ==
    /\ pc = "offload"
    /\ Len(obs.stepLog) >= 2
    /\ ~IsNone(loc.image)

\* C5: a call's schedule, number of steps, fusion sigma and latent trajectory
\* follow from its own arguments, and every scheduler value it reads was
\* written by that call, whatever earlier calls left on the pipeline object.
C5_CallsAreIndependent ==
    (InCall /\ obs.failedAt # "set_timesteps") =>
        /\ obs.schedReads \subseteq {callId}
        /\ scheduler.timesteps = set_timesteps(args.num_inference_steps)
        /\ (~IsNone(loc.latents) => Val(loc.latents) = ExpectedLatents(args, loc.progress_id))
        /\ (pc \in {"decode", "offload"} => Len(obs.stepLog) = args.num_inference_steps)
        /\ \A i \in 1..Len(obs.stepLog) :
             obs.stepLog[i].level = set_timesteps(args.num_inference_steps)[i]
        /\ (pc = "guidance" /\ ~IsNone(loc.fg_mask) =>
              Val(loc.noise_pred_posi).background[4]
                  = set_timesteps(args.num_inference_steps)[loc.progress_id + 1])

C5_Witness ==
    /\ callId >= 2
    /\ pc = "guidance"
    /\ ~IsNone(loc.fg_mask)
    /\ loc.progress_id >= 1
    /\ obs.schedBefore # <<>>
    /\ Len(obs.schedBefore) # args.num_inference_steps

\* the stages inside the loop of line 319
LoopStages == {"positive_side", "inpaint", "guidance", "iterate"}

\* the components that build conditioning
Encoders ==
    {"text_encoder_1", "text_encoder_2", "vae_encoder", "ipadapter_image_encoder", "ipadapter"}

\* the evaluation e was bound from the bundles s alone
FromBundles(e, s) ==
    LET P == IF e.side = "nega" THEN Val(s.prompt_emb_nega)
             ELSE IF e.region = 0 THEN s.prompt_emb_posi
             ELSE s.prompt_emb_locals[e.region]
        K == IF e.side = "nega" THEN s.controlnet_kwargs_nega
             ELSE IF e.region = 0 THEN s.controlnet_kwargs_posi
             ELSE Val(s.local_controlnet_kwargs)[e.region]
        E == IF e.side = "nega" THEN s.eligen_kwargs_nega ELSE s.eligen_kwargs_posi
        A == IF e.side = "nega" THEN s.ipadapter_kwargs_list_nega
             ELSE s.ipadapter_kwargs_list_posi
    IN /\ e.b.prompt_emb = P.prompt_emb
       /\ e.b.pooled_prompt_emb = P.pooled_prompt_emb
       /\ e.b.text_ids = P.text_ids
       /\ e.b.guidance = s.extra_input.guidance
       /\ e.b.image_ids = s.extra_input.image_ids
       /\ e.b.controlnet_frames = Get(K, "controlnet_frames", None)
       /\ e.b.entity_prompt_emb = E.entity_prompt_emb
       /\ e.b.entity_masks = E.entity_masks
       /\ e.b.ipadapter_kwargs_list = A.ipadapter_kwargs_list

\* C11: the conditioning bundles are built before the loop and only read in
\* it: inside the loop no text encoder, latent encoder, adapter image encoder
\* or adapter is evaluated, no bundle differs from what it was when the loop
\* began, and every evaluation of every step, positive or negative, is bound
\* from the bundles of the loop's beginning.
C11_BundlesFixedInLoop ==
    InCall =>
        /\ \A u \in obs.uses : u.during \in LoopStages => u.component \notin Encoders
        /\ IsNone(obs.bundles) => obs.bound = {}
        /\ ~IsNone(obs.bundles) =>
              /\ Bundles = Val(obs.bundles)
              /\ \A e \in obs.bound : FromBundles(e, Val(obs.bundles))
        /\ pc = "iterate" =>
              /\ \E e \in obs.bound :
                    e.step = loc.progress_id /\ e.side = "posi" /\ e.region = 0
              /\ args.cfg_scale # 1 =>
                    \E e \in obs.bound : e.step = loc.progress_id /\ e.side = "nega"

C11_Witness ==
    /\ pc = "iterate"
    /\ loc.progress_id = 1
    /\ args.cfg_scale # 1
    /\ args.n_regions >= 1
    /\ ~IsNone(args.ipadapter_images)
    /\ ~IsNone(args.controlnet_image)
    /\ ~IsNone(args.eligen_entity_masks)
    /\ args.enable_controlnet_on_negative
    /\ Cardinality(obs.bound) >= 6
    /\ \E u \in obs.uses : u.component = "ipadapter"
    /\ \E u \in obs.uses : u.component = "text_encoder_1"

\* C12: at every call of the local-prompt fusion the local prompt
\* embeddings, the region masks and the mask scales have one length, and so
\* has the list of per-region control bundles when one is passed, whatever
\* the prompt extension adds.
C12_FusionListsAgree ==
    ~IsNone(obs.fusion) =>
        LET f == Val(obs.fusion)
        IN /\ Len(f.prompt_emb_locals) = Len(f.masks)
           /\ Len(f.masks) = Len(f.mask_scales)
           /\ ~IsNone(f.special_local_kwargs_list) =>
                  Len(Val(f.special_local_kwargs_list)) = Len(f.prompt_emb_locals)

\* C12 on a pipeline without extenders
C12_AgreeWithoutExtender ==
    (~IsNone(obs.fusion) /\ prompter.extends = 0) =>
        LET f == Val(obs.fusion)
        IN /\ Len(f.prompt_emb_locals) = Len(f.masks)
           /\ Len(f.masks) = Len(f.mask_scales)
           /\ ~IsNone(f.special_local_kwargs_list) =>
                  Len(Val(f.special_local_kwargs_list)) = Len(f.prompt_emb_locals)

\* the sets of models the stages request, lines 183, 196, 199, 209, 240,
\* 318 and 356
StageModels ==
    {{"vae_encoder"}, {"text_encoder_1", "text_encoder_2"}, {"ipadapter_image_encoder"},
     {"ipadapter"}, {"dit", "controlnet"}, {"vae_decoder"}}

\* self.model_names, line 31
model_names ==
    {"text_encoder_1", "text_encoder_2", "dit", "vae_decoder", "vae_encoder",
     "controlnet", "ipadapter", "ipadapter_image_encoder"}

C13_UsedModelsAreResident ==
    InCall =>
        \A u \in obs.uses :
            /\ u.component \in model_names
            /\ u.component \in u.resident
            /\ u.resident \in StageModels

\* C13: whenever a weight-holding component is evaluated it is in the set of
\* models most recently requested, that set holds the models of one stage
\* only (those of the stages before are released), and a call that returns
\* normally leaves the requested set empty.
C13_ResidencyFollowsStages ==
    /\ []C13_UsedModelsAreResident
    /\ [][(pc = "offload" /\ pc' = "idle") => resident' = {}]_vars

C13_Witness ==
    /\ pc = "offload"
    /\ {u.component : u \in obs.uses} = model_names
    /\ \E u \in obs.uses : u.during = "prepare_eligen"
    /\ resident = {"vae_decoder"}

\* ------------------------------------------------------------- lets_dance_flux, step by step
\* tile sizes and strides tried; the latent is MaxGrid rows at most
TileSizes == {1, 2}
TileStrides == {1, 2}

Max(a, b) == IF a >= b THEN a ELSE b

\* FastTileWorker.tiled_forward: the row windows <<hl, hr>> handed to the
\* callback, overlapping windows of tile_size rows every tile_stride rows, the
\* last one drawn back to the edge
TileStarts(H, tile_size, tile_stride) ==
    {h \in 0..(H - 1) :
        /\ h % tile_stride = 0
        /\ ~(h - tile_stride >= 0 /\ h - tile_stride + tile_size >= H)}

TileOf(h, H, tile_size) ==
    IF h + tile_size > H THEN <<Max(0, H - tile_size), H>> ELSE <<h, h + tile_size>>

RECURSIVE Ascending(_)
Ascending(S) ==
    IF S = {} THEN <<>>
    ELSE LET m == CHOOSE x \in S : \A y \in S : x <= y
         IN <<m>> \o Ascending(S \ {m})

Tiles(H, tile_size, tile_stride) ==
    LET starts == Ascending(TileStarts(H, tile_size, tile_stride))
    IN [i \in 1..Len(starts) |-> TileOf(starts[i], H, tile_size)]

\* the arguments of an evaluation the pipeline can make: its own control
\* manager, encoded prompts, the bundles of prepare_eligen, prepare_ipadapter
\* and prepare_controlnet, and a latent of H rows
EvalInputs ==
    {[b |-> [Defaults EXCEPT
                !.controlnet = Some("controlnet"),
                !.prompt_emb = encode_prompt(<<"global", 0>>, TRUE).prompt_emb,
                !.pooled_prompt_emb = encode_prompt(<<"global", 0>>, TRUE).pooled_prompt_emb,
                !.text_ids = encode_prompt(<<"global", 0>>, TRUE).text_ids,
                !.guidance = <<"guidance">>,
                !.image_ids = <<"image_ids">>,
                !.tiled = tiled,
                !.controlnet_frames = frames,
                !.entity_prompt_emb = entity,
                !.entity_masks = IF IsNone(entity) THEN None ELSE Some(<<"entity", "entity_masks">>),
                !.ipadapter_kwargs_list = ip],
      H |-> H, tile_size |-> tile_size, tile_stride |-> tile_stride,
      window |-> <<0, H>>] :
        tiled \in Bool,
        frames \in {None, Some(prepare_controlnet_input("controlnet_image", None))},
        entity \in {None, Some(encode_prompt(<<"entity", 0>>, TRUE).prompt_emb)},
        ip \in {EmptyDict, ipadapter("siglip")},
        H \in 1..MaxGrid, tile_size \in TileSizes, tile_stride \in TileStrides}

\* line 385: whether the evaluation is handed to the tile worker
Delegates_never(in) == FALSE

Delegates(in) == in.b.tiled

\* the residual stacks of the control subnetwork, one residual per block
ControlStacks(in) ==
    [joint  |-> [k \in 1..NumJoint |-> <<"joint_residual", k - 1, in.b.controlnet_frames>>],
     single |-> [k \in 1..NumSingle |-> <<"single_residual", k - 1, in.b.controlnet_frames>>]]

\* ipadapter_kwargs_list.get(block_id, None)
IpFor(in, block_id) ==
    IF block_id \in DOMAIN in.b.ipadapter_kwargs_list
    THEN Some(in.b.ipadapter_kwargs_list[block_id]) ELSE None

\* one block of the backbone applied to a token stream
Block(stream, kind, k, in) == Append(stream, <<kind, k, IpFor(in, k)>>)

\* lines 461 and 477: the span of the sequence the residual is added to
ResidualSpans_all == {"prompt", "image"}

ResidualSpans == {"image"}

AddResidual(stream, span, res) == IF span \in ResidualSpans THEN Append(stream, res) ELSE stream

\* the evaluation begins: lines 366-385
EvalEntry ==
    /\ ev.phase = "entry"
    /\ IF Delegates(ev.in)
       THEN ev' = [ev EXCEPT
              !.phase = "tiling",
              !.delegated = TRUE,
              !.tiles = Tiles(ev.in.H, ev.in.tile_size, ev.in.tile_stride)]
       ELSE ev' = [ev EXCEPT !.phase = "control"]
    /\ UNCHANGED <<pc, callId, args, scheduler, resident, loc, obs, fu, prompter>>

\* lines 386-401: the worker calls flux_forward_fn on the next tile
TileCallback ==
    /\ ev.phase = "tiling"
    /\ ev.depth = 0
    /\ Len(ev.outputs) < Len(ev.tiles)
    /\ ev' = [ev EXCEPT
         !.phase = "entry",
         !.depth = @ + 1,
         !.callbacks = @ + 1,
         !.outer = Some(ev.in),
         !.in = [ev.in EXCEPT !.b = TileCall(ev.in.b),
                              !.window = ev.tiles[Len(ev.outputs) + 1],
                              !.H = ev.tiles[Len(ev.outputs) + 1][2]
                                    - ev.tiles[Len(ev.outputs) + 1][1]]]
    /\ UNCHANGED <<pc, callId, args, scheduler, resident, loc, obs, fu, prompter>>

\* lines 402-409: every tile is back, the worker blends them
Stitch ==
    /\ ev.phase = "tiling"
    /\ ev.depth = 0
    /\ Len(ev.outputs) = Len(ev.tiles)
    /\ ev' = [ev EXCEPT !.phase = "done", !.result = Some(<<"stitched", ev.outputs>>)]
    /\ UNCHANGED <<pc, callId, args, scheduler, resident, loc, obs, fu, prompter>>

\* lines 412-428
ControlNet ==
    /\ ev.phase = "control"
    /\ ev' = [ev EXCEPT
         !.phase = "embed",
         !.stacks = IF UsesControl(ev.in.b) THEN Some(ControlStacks(ev.in)) ELSE None]
    /\ UNCHANGED <<pc, callId, args, scheduler, resident, loc, obs, fu, prompter>>

\* lines 430-447
Embed ==
    /\ ev.phase = "embed"
    /\ ev' = [ev EXCEPT
         !.phase = "joint",
         !.block_id = 0,
         !.image = <<<<"x_embedder", ev.in.window,
                       IF IsNone(ev.in.b.image_ids) THEN <<"prepare_image_ids", ev.in.window>>
                       ELSE ev.in.b.image_ids>>>>,
         !.prompt = <<IF UsesEntity(ev.in.b)
                      THEN <<"process_entity_masks", ev.in.b.prompt_emb,
                             Val(ev.in.b.entity_prompt_emb), Val(ev.in.b.entity_masks)>>
                      ELSE <<"context_embedder", ev.in.b.prompt_emb>>>>,
         !.conditioning = <<ev.in.b.pooled_prompt_emb, ev.in.b.guidance>>]
    /\ UNCHANGED <<pc, callId, args, scheduler, resident, loc, obs, fu, prompter>>

\* lines 450-461, one iteration
JointBlock ==
    /\ ev.phase = "joint"
    /\ ev.block_id < NumJoint
    /\ LET k == ev.block_id
           image  == Block(ev.image, "joint", k, ev.in)
           prompt == Block(ev.prompt, "joint", k, ev.in)
       IN ev' = [ev EXCEPT
            !.block_id = k + 1,
            !.image = IF UsesControl(ev.in.b)
                      THEN AddResidual(image, "image", Val(ev.stacks).joint[k + 1])
                      ELSE image,
            !.prompt = IF UsesControl(ev.in.b)
                       THEN AddResidual(prompt, "prompt", Val(ev.stacks).joint[k + 1])
                       ELSE prompt]
    /\ UNCHANGED <<pc, callId, args, scheduler, resident, loc, obs, fu, prompter>>

\* lines 463-465: the streams are concatenated, the single blocks begin
Concatenate ==
    /\ ev.phase = "joint"
    /\ ev.block_id = NumJoint
    /\ ev' = [ev EXCEPT !.phase = "single", !.block_id = 0]
    /\ UNCHANGED <<pc, callId, args, scheduler, resident, loc, obs, fu, prompter>>

\* lines 466-477, one iteration on the concatenated sequence, kept as its
\* prompt span and its image span
SingleBlock ==
    /\ ev.phase = "single"
    /\ ev.block_id < NumSingle
    /\ LET k == ev.block_id
           image  == Block(ev.image, "single", k + NumJoint, ev.in)
           prompt == Block(ev.prompt, "single", k + NumJoint, ev.in)
       IN ev' = [ev EXCEPT
            !.block_id = k + 1,
            !.image = IF UsesControl(ev.in.b)
                      THEN AddResidual(image, "image", Val(ev.stacks).single[k + 1])
                      ELSE image,
            !.prompt = IF UsesControl(ev.in.b)
                       THEN AddResidual(prompt, "prompt", Val(ev.stacks).single[k + 1])
                       ELSE prompt]
    /\ UNCHANGED <<pc, callId, args, scheduler, resident, loc, obs, fu, prompter>>

\* lines 478-484: the image span is projected back; a tile's result returns
\* to the worker
Final ==
    /\ ev.phase = "single"
    /\ ev.block_id = NumSingle
    /\ LET out == [window |-> ev.in.window, image |-> ev.image,
                   conditioning |-> ev.conditioning, signals |-> Signals(ev.in.b)]
       IN IF ev.depth = 0
          THEN ev' = [ev EXCEPT !.phase = "done", !.result = Some(out)]
          ELSE ev' = [ev EXCEPT
                 !.phase = "tiling",
                 !.depth = @ - 1,
                 !.in = Val(ev.outer),
                 !.outer = None,
                 !.outputs = Append(@, out),
                 !.image = <<>>, !.prompt = <<>>, !.conditioning = <<>>,
                 !.stacks = None, !.block_id = 0]
    /\ UNCHANGED <<pc, callId, args, scheduler, resident, loc, obs, fu, prompter>>

InitEval ==
    /\ pc = "idle"
    /\ callId = 0
    /\ args = NoArgs
    /\ scheduler = [timesteps |-> <<>>, writer |-> 0]
    /\ resident = {"dit", "controlnet"}
    /\ loc = NoLocals
    /\ obs = NoObs
    /\ fu = NoFusion
    /\ prompter = NoExtender
    /\ \E in \in EvalInputs :
         ev = [phase |-> "entry", in |-> in, top |-> in, depth |-> 0, delegated |-> FALSE,
               tiles |-> <<>>, outputs |-> <<>>, callbacks |-> 0, outer |-> None,
               stacks |-> None, block_id |-> 0, image |-> <<>>, prompt |-> <<>>,
               conditioning |-> <<>>, result |-> None]

NextEval ==
    \/ EvalEntry
    \/ TileCallback
    \/ Stitch
    \/ ControlNet
    \/ Embed
    \/ JointBlock
    \/ Concatenate
    \/ SingleBlock
    \/ Final

SpecEval == InitEval /\ [][NextEval]_vars

\* a call of a synchronous function runs on until it returns
FairSpecEval == SpecEval /\ WF_vars(NextEval)

\* ------------------------------------------------------------- claims about the evaluator
\* C3: every per-tile evaluation applies the conditioning the whole-latent
\* evaluation would apply (prompt and pooled embeddings, guidance, text ids,
\* entity prompt embeddings and masks, adapter kwargs, and the control frames
\* cut to the tile), so that the stitched result matches the untiled one.
SlicedSignals(b) ==
    [Signals(b) EXCEPT !.control = IF IsNone(@) THEN None ELSE Some(SliceFrames(Val(@)))]

\* C3: every per-tile evaluation applies the conditioning of the untiled
\* evaluation, with only the control frames cut to the tile.
C3_TilesApplyFullConditioning ==
    /\ (ev.phase # "off" /\ ev.depth = 1) =>
           Signals(ev.in.b) = SlicedSignals(Val(ev.outer).b)
    /\ (ev.phase = "done" /\ ev.delegated) =>
           \A i \in 1..Len(ev.outputs) : ev.outputs[i].signals = SlicedSignals(ev.top.b)

\* C9 as stated: the evaluation is handed to the tile worker exactly when
\* tiling is requested and the latent is larger than the tile.
C9_DelegatesAboveThreshold ==
    (ev.phase \notin {"off", "entry"} /\ ev.depth = 0) =>
        (ev.delegated <=> (ev.top.b.tiled /\ ev.top.H > ev.top.tile_size))

\* C9, amended: the evaluation is handed to the tile worker exactly when
\* tiling is requested, whatever the size of the latent, and otherwise runs on
\* the whole latent; every per-tile evaluation runs with tiling off, so the
\* nesting is one level at most, and the evaluation ends after as many tile
\* callbacks as the latent has tiles.
C9_Nesting ==
    (ev.phase # "off") =>
        /\ ev.depth \in {0, 1}
        /\ (ev.depth = 1 => ~ev.in.b.tiled /\ ev.phase # "tiling")
        /\ ((ev.phase # "entry" /\ ev.depth = 0) => (ev.delegated <=> ev.top.b.tiled))
        /\ (~ev.top.b.tiled => ev.callbacks = 0 /\ ev.depth = 0)
        /\ ev.callbacks <= Len(ev.tiles)
        /\ Len(ev.tiles) <= ev.top.H
        /\ (ev.phase = "done" =>
               IF ev.delegated
               THEN ev.callbacks = Len(ev.tiles) /\ Len(ev.outputs) = Len(ev.tiles)
               ELSE Val(ev.result).window = <<0, ev.top.H>>)

\* C9, amended: the tile worker is used exactly when tiling is requested,
\* whatever the latent size; per-tile evaluations run untiled, nesting never
\* exceeds one level, and every evaluation finishes.
C9_DelegatesWhenTiled ==
    /\ []C9_Nesting
    /\ <>(ev.phase = "done")

C9_Witness ==
    /\ ev.phase = "done"
    /\ ev.delegated
    /\ ev.top.H <= ev.top.tile_size
    /\ ev.callbacks = 1

\* C10: with control frames present, after joint block k the k-th joint
\* residual is added to the image tokens and the prompt tokens are left alone,
\* and after single block k the k-th single residual is added to the image
\* span only; without control frames no residual is added to either stream.
IsResidual(e) == e[1] \in {"joint_residual", "single_residual"}

C10_ResidualsOnImageTokensOnly ==
    (ev.phase \in {"joint", "single", "done"} /\ ev.image # <<>>) =>
        LET frames == ev.in.b.controlnet_frames IN
        /\ \A i \in 1..Len(ev.prompt) : ~IsResidual(ev.prompt[i])
        /\ IsNone(frames) => \A i \in 1..Len(ev.image) : ~IsResidual(ev.image[i])
        /\ ~IsNone(frames) =>
              \A i \in 1..Len(ev.image) :
                  /\ ev.image[i][1] = "joint" =>
                        /\ i < Len(ev.image)
                        /\ ev.image[i + 1] = <<"joint_residual", ev.image[i][2], frames>>
                  /\ ev.image[i][1] = "single" =>
                        /\ i < Len(ev.image)
                        /\ ev.image[i + 1]
                             = <<"single_residual", ev.image[i][2] - NumJoint, frames>>
                  /\ (IsResidual(ev.image[i]) => ev.image[i - 1][1] \in {"joint", "single"})
        /\ Len(ev.prompt) = 1 + (IF ev.phase = "joint" THEN ev.block_id
                                 ELSE NumJoint + ev.block_id)

C10_Witness ==
    /\ ev.phase = "done"
    /\ ~ev.delegated
    /\ ~IsNone(ev.in.b.controlnet_frames)
    /\ Len(Val(ev.result).image) = 1 + 2 * (NumJoint + NumSingle)

\* ------------------------------------------------------------- inpaint_fusion on numbers
\* tensors are functions on the positions 1..MaxPos; a value is a rational <<n, d>>
Pos == 1..MaxPos
LatentVals == {1, 2}
CleanVals == {0, 1}
PredVals == {0, 3}
Sigmas == {1, 2, 3}
BackgroundWeights == {0, 1}

Rat(n) == <<n, 1>>
RAdd(a, b) == <<a[1] * b[2] + b[1] * a[2], a[2] * b[2]>>
RMul(a, b) == <<a[1] * b[1], a[2] * b[2]>>
RDiv(a, b) == <<a[1] * b[2], a[2] * b[1]>>
REq(a, b) == a[1] * b[2] = b[1] * a[2]

\* the positions a mask index selects; None is a new-axis view of the whole tensor
Sel(mask) == IF IsNone(mask) THEN Pos ELSE Val(mask)

\* prepare_entity_inputs, lines 169-174: the union of the entity masks and
\* its complement; both None when inpainting has no entity masks
MaskPairs ==
    {[fg_mask |-> Some(fg), bg_mask |-> Some(Pos \ fg)] : fg \in SUBSET Pos}
    \cup {[fg_mask |-> None, bg_mask |-> None]}

\* line 151: the positions that take the predicted noise
ForegroundPositions_swapped(fg_mask, bg_mask) == Sel(bg_mask)

ForegroundPositions(fg_mask, bg_mask) == Sel(fg_mask)

\* lines 148-150
FusionNoise ==
    /\ fu.phase = "start"
    /\ fu' = [fu EXCEPT
         !.phase = "foreground",
         !.inpaint_noise = [p \in Pos |->
              RDiv(Rat(fu.latents[p] - fu.inpaint_latents[p]), Rat(fu.sigma))],
         !.weight = [p \in Pos |-> Rat(1)]]
    /\ UNCHANGED <<pc, callId, args, scheduler, resident, loc, obs, ev, prompter>>

\* line 151
FusionForeground ==
    /\ fu.phase = "foreground"
    /\ fu' = [fu EXCEPT
         !.phase = "background",
         !.inpaint_noise = [p \in Pos |->
              IF p \in ForegroundPositions(fu.fg_mask, fu.bg_mask)
              THEN Rat(fu.pred_noise[p]) ELSE @[p]]]
    /\ UNCHANGED <<pc, callId, args, scheduler, resident, loc, obs, ev, prompter>>

\* lines 152-153
FusionBackground ==
    /\ fu.phase = "background"
    /\ fu' = [fu EXCEPT
         !.phase = "normalize",
         !.inpaint_noise = [p \in Pos |->
              IF p \in Sel(fu.bg_mask)
              THEN RAdd(@[p], RMul(Rat(fu.pred_noise[p]), Rat(fu.background_weight)))
              ELSE @[p]],
         !.weight = [p \in Pos |->
              IF p \in Sel(fu.bg_mask)
              THEN RAdd(@[p], Rat(fu.background_weight)) ELSE @[p]]]
    /\ UNCHANGED <<pc, callId, args, scheduler, resident, loc, obs, ev, prompter>>

\* lines 154-155
FusionNormalize ==
    /\ fu.phase = "normalize"
    /\ fu' = [fu EXCEPT
         !.phase = "done",
         !.inpaint_noise = [p \in Pos |-> RDiv(@[p], fu.weight[p])]]
    /\ UNCHANGED <<pc, callId, args, scheduler, resident, loc, obs, ev, prompter>>

InitFusion ==
    /\ pc = "idle"
    /\ callId = 0
    /\ args = NoArgs
    /\ scheduler = [timesteps |-> <<>>, writer |-> 0]
    /\ resident = {"dit", "controlnet"}
    /\ loc = NoLocals
    /\ obs = NoObs
    /\ ev = NoEval
    /\ prompter = NoExtender
    /\ \E latents \in [Pos -> LatentVals], inpaint_latents \in [Pos -> CleanVals],
          pred_noise \in [Pos -> PredVals], sigma \in Sigmas, m \in MaskPairs,
          background_weight \in BackgroundWeights :
         fu = [phase |-> "start", latents |-> latents, inpaint_latents |-> inpaint_latents,
               pred_noise |-> pred_noise, sigma |-> sigma,
               fg_mask |-> m.fg_mask, bg_mask |-> m.bg_mask,
               background_weight |-> background_weight,
               inpaint_noise |-> <<>>, weight |-> <<>>]

NextFusion ==
    \/ FusionNoise
    \/ FusionForeground
    \/ FusionBackground
    \/ FusionNormalize

SpecFusion == InitFusion /\ [][NextFusion]_vars

\* C6: with background_weight = 0 and complementary foreground and background
\* masks, the fused noise is, at every background position, exactly the
\* input-derived noise (latent minus clean latent, over the sigma of the
\* level) whatever the predicted noise, and at every foreground position
\* exactly the predicted noise.
C6_FusionAtZeroBackgroundWeight ==
    (/\ fu.phase = "done"
     /\ fu.background_weight = 0
     /\ ~IsNone(fu.fg_mask) /\ ~IsNone(fu.bg_mask)) =>
        /\ \A p \in Val(fu.bg_mask) :
             REq(fu.inpaint_noise[p],
                 RDiv(Rat(fu.latents[p] - fu.inpaint_latents[p]), Rat(fu.sigma)))
        /\ \A p \in Val(fu.fg_mask) :
             REq(fu.inpaint_noise[p], Rat(fu.pred_noise[p]))

C6_Witness ==
    /\ fu.phase = "done"
    /\ fu.background_weight = 0
    /\ ~IsNone(fu.fg_mask) /\ ~IsNone(fu.bg_mask)
    /\ Val(fu.fg_mask) # {} /\ Val(fu.bg_mask) # {}
    /\ fu.sigma > 1
    /\ \E p \in Val(fu.bg_mask) :
         /\ fu.pred_noise[p] # 0
         /\ fu.latents[p] # fu.inpaint_latents[p]

====
